---- MODULE Spec2Model ----
(***************************************************************************)
(* ChannelRecommendationManager (td/telegram/ChannelRecommendationManager  *)
(* .cpp): the cache of recommended channels with its three tiers (memory,  *)
(* the sqlite key-value store, the server) and the queues of promises      *)
(* that wait for one load per channel.                                     *)
(*                                                                         *)
(* The manager is an actor: each of its handlers runs to completion, so    *)
(* each handler is one action.  The key-value store and the network are    *)
(* other actors: a request to them is a message in flight until its reply  *)
(* is delivered back to the manager.                                       *)
(***************************************************************************)
EXTENDS Integers, Sequences, FiniteSets, TLC

\* ---------------------------------------------------------------- bounds
MaxCalls == 2      \* get_channel_recommendations calls in one behaviour
MaxTime == 1       \* Time::now() runs over 0..MaxTime

\* CHANNEL_RECOMMENDATIONS_CACHE_TIME, in ticks of the model's clock
CHANNEL_RECOMMENDATIONS_CACHE_TIME == 1

\* ------------------------------------------------------------ value sets
\* Dialogs a request can name: a broadcast channel, a supergroup (a channel
\* that is no broadcast channel) and a dialog the client does not know.
SourceDialogs == {"chan", "group", "nodialog"}
\* The channels the server recommends.
Dialogs == {"a", "b"}
\* The replies' chat lists: the telegram_api::Chat objects, in server order.
Chat(channel_id) == [id |-> channel_id]
RawLists == {<<>>, <<Chat("a")>>, <<Chat("a"), Chat("b")>>}
\* The replies' count_: below every list (and negative), above every list.
RawTotals == {-1, 3}
\* The errors a GetChannelRecommendationsQuery can end with.
FetchErrors == {"CHANNEL_PRIVATE"}

Calls == 1 .. MaxCalls
NoPromise == 0     \* an empty Promise (Auto(), or a moved-from one)
NoRecord == [none |-> TRUE]
EmptyValue == [bytes |-> "empty"]    \* the store's answer for a missing key
BadValue == [bytes |-> "garbage"]    \* bytes log_event_parse fails on

VARIABLES
  channel_recommended_dialogs_,              \* ChannelId -> RecommendedDialogs
  get_channel_recommendations_queries_,      \* ChannelId -> vector<Promise<chats>>
  get_channel_recommendation_count_queries_, \* [2]: ChannelId -> vector<Promise<count>>
  sqlite_pmc,       \* the key-value store: database key -> bytes
  pmc_gets,         \* sqlite get requests in flight, per channel: the bytes read
  net_queries,      \* GetChannelRecommendationsQuery in flight, per channel
  check_failed,     \* a CHECK of the manager failed (the process aborts)
  now,              \* Time::now()
  not_suitable,     \* channels that fail is_suitable_recommended_channel
  is_premium,       \* option "is_premium"
  close_flag,       \* G()->close_flag()
  use_message_database,  \* G()->use_message_database()
  calls,            \* history: the get_channel_recommendations calls made
  chats_result,     \* history: what each call's chats_promise received
  count_result,     \* history: what each call's count_promise received
  dropped,          \* history: channels whose cache a get dropped, until the
                    \* next result of a fetch
  last_fetch,       \* history: how the channel's last query to the server ended
  parse_failed      \* history: the channel's last read of the store gave bytes
                    \* that did not parse

vars == <<channel_recommended_dialogs_, get_channel_recommendations_queries_,
          get_channel_recommendation_count_queries_, sqlite_pmc, pmc_gets,
          net_queries, check_failed, now, not_suitable, is_premium, close_flag,
          use_message_database, calls, chats_result, count_result, dropped,
          last_fetch, parse_failed>>

\* --------------------------------------------------------------- helpers
ReturnLocalIndex(return_local) == IF return_local THEN 1 ELSE 0

Channels == {d \in SourceDialogs : d = "chan" \/ d = "group"}
BroadcastChannels == {"chan"}

\* DialogManager::have_dialog_force
have_dialog_force(dialog_id) == dialog_id # "nodialog"

\* ContactsManager::is_broadcast_channel && get_input_channel != nullptr
is_broadcast_channel(channel_id) == channel_id \in BroadcastChannels

\* G()->close_status()
close_status == "Request aborted"


\* The channels that pass the checks of get_channel_recommendations and so
\* index the manager's maps.
CacheKeys == BroadcastChannels

\* get_channel_recommendations_database_key
get_channel_recommendations_database_key(channel_id) ==
  <<"channel_recommendations", channel_id>>

DatabaseKeys == {get_channel_recommendations_database_key(c) : c \in CacheKeys}

\* A default-constructed RecommendedDialogs.
EmptyRecommendedDialogs ==
  [total_count_ |-> 0, dialog_ids_ |-> <<>>, next_reload_time_ |-> 0]

\* store_time / parse_time: the time is written so that it reads back as the
\* same absolute time.
store_time(time_at) == [at |-> time_at]
parse_time(stored) == stored.at

\* RecommendedDialogs::store that never writes total_count_.
store_without_total_count(recommended_dialogs) ==
  LET has_dialog_ids == recommended_dialogs.dialog_ids_ # <<>>
  IN [bytes |-> "log_event",
      has_dialog_ids |-> has_dialog_ids,
      has_total_count |-> FALSE,
      dialog_ids |-> IF has_dialog_ids THEN recommended_dialogs.dialog_ids_ ELSE <<>>,
      time |-> store_time(recommended_dialogs.next_reload_time_),
      total_count |-> 0]

\* RecommendedDialogs::store.  static_cast<size_t> of a negative total_count_
\* is above every vector size, so it differs from dialog_ids_.size().
store(recommended_dialogs) ==
  LET has_dialog_ids == recommended_dialogs.dialog_ids_ # <<>>
      has_total_count == \/ recommended_dialogs.total_count_ < 0
                         \/ recommended_dialogs.total_count_ #
                              Len(recommended_dialogs.dialog_ids_)
  IN [bytes |-> "log_event",
      has_dialog_ids |-> has_dialog_ids,
      has_total_count |-> has_total_count,
      dialog_ids |-> IF has_dialog_ids THEN recommended_dialogs.dialog_ids_ ELSE <<>>,
      time |-> store_time(recommended_dialogs.next_reload_time_),
      total_count |-> IF has_total_count THEN recommended_dialogs.total_count_ ELSE 0]

\* RecommendedDialogs::parse into the object `into`; only called on bytes
\* that log_event_parse accepts.
parse(into, value) ==
  LET dialog_ids == IF value.has_dialog_ids THEN value.dialog_ids ELSE into.dialog_ids_
  IN [total_count_ |-> IF value.has_total_count THEN value.total_count ELSE Len(dialog_ids),
      dialog_ids_ |-> dialog_ids,
      next_reload_time_ |-> parse_time(value.time)]

\* log_event_parse(...).is_error()
log_event_parse_is_error(value) == value.bytes # "log_event"

\* is_suitable_recommended_channel
is_suitable_recommended_channel(dialog_id) == dialog_id \notin not_suitable

\* are_suitable_recommended_dialogs
are_suitable_recommended_dialogs(recommended_dialogs) ==
  LET have_all == Len(recommended_dialogs.dialog_ids_) = recommended_dialogs.total_count_
  IN /\ \A i \in 1 .. Len(recommended_dialogs.dialog_ids_) :
          is_suitable_recommended_channel(recommended_dialogs.dialog_ids_[i])
     /\ ~(~have_all /\ is_premium)

\* ------------------------------------------------- the manager's state
\* The handlers below are functions from the manager's state to its next
\* state; M is the current one.
M == [recs |-> channel_recommended_dialogs_,
      lq |-> get_channel_recommendations_queries_,
      cq |-> get_channel_recommendation_count_queries_,
      db |-> sqlite_pmc,
      gets |-> pmc_gets,
      net |-> net_queries,
      failed |-> check_failed,
      chats |-> chats_result,
      counts |-> count_result]

\* How many of the three promise queues of a channel exist.
QueuesLeft(s, channel_id) ==
  (IF s.lq[channel_id] # <<>> THEN 1 ELSE 0)
  + (IF s.cq[0][channel_id] # <<>> THEN 1 ELSE 0)
  + (IF s.cq[1][channel_id] # <<>> THEN 1 ELSE 0)

ChatsValue(total_count, dialog_ids, via, left) ==
  [kind |-> "value", total_count |-> total_count, dialog_ids |-> dialog_ids,
   error |-> "", via |-> via, left |-> left]
ChatsError(error, via, left) ==
  [kind |-> "error", total_count |-> 0, dialog_ids |-> <<>>,
   error |-> error, via |-> via, left |-> left]
CountValue(count, via, left) ==
  [kind |-> "value", count |-> count, error |-> "", via |-> via, left |-> left]
CountError(error, via, left) ==
  [kind |-> "error", count |-> 0, error |-> error, via |-> via, left |-> left]

\* Promise::set_value / set_error: an empty promise ignores both.
set_chats(s, promise, outcome) ==
  IF promise = NoPromise THEN s
  ELSE [s EXCEPT !.chats[promise] = Append(@, outcome)]
set_count(s, promise, outcome) ==
  IF promise = NoPromise THEN s
  ELSE [s EXCEPT !.counts[promise] = Append(@, outcome)]

RECURSIVE set_all_chats(_, _, _)
set_all_chats(s, promises, outcome) ==
  IF promises = <<>> THEN s
  ELSE set_all_chats(set_chats(s, Head(promises), outcome), Tail(promises), outcome)

RECURSIVE set_all_counts(_, _, _)
set_all_counts(s, promises, outcome) ==
  IF promises = <<>> THEN s
  ELSE set_all_counts(set_count(s, Head(promises), outcome), Tail(promises), outcome)


\* ---------------------------------------------------------- the handlers
\* reload_channel_recommendations that sends the query and leaves the
\* return_local count promises in their queue.
reload_keeps_return_local_queue(s, channel_id) ==
  [s EXCEPT !.net[channel_id] = @ + 1]

\* reload_channel_recommendations: answers the return_local count promises
\* with -1 and sends a GetChannelRecommendationsQuery.
reload_channel_recommendations(s, channel_id) ==
  LET promises == s.cq[1][channel_id]
      s1 == [s EXCEPT !.cq[1][channel_id] = <<>>]
      s2 == set_all_counts(s1, promises,
                           CountValue(-1, "reload", QueuesLeft(s1, channel_id)))
  IN [s2 EXCEPT !.net[channel_id] = @ + 1]

\* load_channel_recommendations that queues a chats promise only when it is
\* not empty, and starts the load when the chats queue is no longer than one.
load_skips_empty_chats_promise(s, channel_id, use_database, return_local, chats_promise, count_promise) ==
  LET s1 == IF count_promise # NoPromise
            THEN [s EXCEPT !.cq[ReturnLocalIndex(return_local)][channel_id] =
                             Append(@, count_promise)]
            ELSE s
      s2 == IF chats_promise # NoPromise
            THEN [s1 EXCEPT !.lq[channel_id] = Append(@, chats_promise)]
            ELSE s1
  IN IF Len(s2.lq[channel_id]) <= 1 /\ Len(s.lq[channel_id]) = 0
     THEN IF use_message_database /\ use_database
          THEN [s2 EXCEPT !.gets[channel_id] =
                  Append(@, s2.db[get_channel_recommendations_database_key(channel_id)])]
          ELSE reload_channel_recommendations(s2, channel_id)
     ELSE s2

\* load_channel_recommendations that starts a load for every call, not only
\* for the first promise of the queue.
load_for_every_call(s, channel_id, use_database, return_local, chats_promise, count_promise) ==
  LET s1 == IF count_promise # NoPromise
            THEN [s EXCEPT !.cq[ReturnLocalIndex(return_local)][channel_id] =
                             Append(@, count_promise)]
            ELSE s
      s2 == [s1 EXCEPT !.lq[channel_id] = Append(@, chats_promise)]
  IN IF use_message_database /\ use_database
     THEN [s2 EXCEPT !.gets[channel_id] =
             Append(@, s2.db[get_channel_recommendations_database_key(channel_id)])]
     ELSE reload_channel_recommendations(s2, channel_id)

\* load_channel_recommendations
load_channel_recommendations(s, channel_id, use_database, return_local, chats_promise, count_promise) ==
  LET s1 == IF count_promise # NoPromise
            THEN [s EXCEPT !.cq[ReturnLocalIndex(return_local)][channel_id] =
                             Append(@, count_promise)]
            ELSE s
      s2 == [s1 EXCEPT !.lq[channel_id] = Append(@, chats_promise)]
  IN IF Len(s2.lq[channel_id]) = 1
     THEN IF use_message_database /\ use_database
          THEN [s2 EXCEPT !.gets[channel_id] =
                  Append(@, s2.db[get_channel_recommendations_database_key(channel_id)])]
          ELSE reload_channel_recommendations(s2, channel_id)
     ELSE s2

\* fail_load_channel_recommendations_queries without its loop over the count
\* queries.
fail_chats_queries_only(s, channel_id, error) ==
  LET promises == s.lq[channel_id]
      s4 == [s EXCEPT !.lq[channel_id] = <<>>]
  IN IF promises = <<>>
     THEN [s EXCEPT !.failed = TRUE]
     ELSE set_all_chats(s4, promises, ChatsError(error, "fail", QueuesLeft(s4, channel_id)))

\* fail_load_channel_recommendations_queries
fail_load_channel_recommendations_queries(s, channel_id, error) ==
  LET p0 == s.cq[0][channel_id]
      s0 == [s EXCEPT !.cq[0][channel_id] = <<>>]
      s1 == set_all_counts(s0, p0, CountError(error, "fail", QueuesLeft(s0, channel_id)))
      p1 == s1.cq[1][channel_id]
      s2 == [s1 EXCEPT !.cq[1][channel_id] = <<>>]
      s3 == set_all_counts(s2, p1, CountError(error, "fail", QueuesLeft(s2, channel_id)))
      promises == s3.lq[channel_id]
      s4 == [s3 EXCEPT !.lq[channel_id] = <<>>]
  IN IF promises = <<>>
     THEN [s3 EXCEPT !.failed = TRUE]
     ELSE set_all_chats(s4, promises, ChatsError(error, "fail", QueuesLeft(s4, channel_id)))

\* finish_load_channel_recommendations_queries that answers only the chats
\* promise that started the load, the first of the queue.
finish_answers_first_chats_promise(s, channel_id, total_count, dialog_ids) ==
  LET p0 == s.cq[0][channel_id]
      s0 == [s EXCEPT !.cq[0][channel_id] = <<>>]
      s1 == set_all_counts(s0, p0,
                           CountValue(total_count, "finish", QueuesLeft(s0, channel_id)))
      p1 == s1.cq[1][channel_id]
      s2 == [s1 EXCEPT !.cq[1][channel_id] = <<>>]
      s3 == set_all_counts(s2, p1,
                           CountValue(total_count, "finish", QueuesLeft(s2, channel_id)))
      promises == s3.lq[channel_id]
      s4 == [s3 EXCEPT !.lq[channel_id] = <<>>]
  IN IF promises = <<>>
     THEN [s3 EXCEPT !.failed = TRUE]
     ELSE set_chats(s4, Head(promises),
                    ChatsValue(total_count, dialog_ids, "finish",
                               QueuesLeft(s4, channel_id)))

\* finish_load_channel_recommendations_queries whose loop over return_local
\* stops after the first queue of count promises.
finish_first_count_queue_only(s, channel_id, total_count, dialog_ids) ==
  LET p0 == s.cq[0][channel_id]
      s0 == [s EXCEPT !.cq[0][channel_id] = <<>>]
      s1 == set_all_counts(s0, p0,
                           CountValue(total_count, "finish", QueuesLeft(s0, channel_id)))
      promises == s1.lq[channel_id]
      s4 == [s1 EXCEPT !.lq[channel_id] = <<>>]
  IN IF promises = <<>>
     THEN [s1 EXCEPT !.failed = TRUE]
     ELSE set_all_chats(s4, promises,
                        ChatsValue(total_count, dialog_ids, "finish",
                                   QueuesLeft(s4, channel_id)))

\* finish_load_channel_recommendations_queries that answers the count
\* promises with the number of received chats, not with total_count.
finish_with_list_size(s, channel_id, total_count, dialog_ids) ==
  LET p0 == s.cq[0][channel_id]
      s0 == [s EXCEPT !.cq[0][channel_id] = <<>>]
      s1 == set_all_counts(s0, p0,
                           CountValue(Len(dialog_ids), "finish", QueuesLeft(s0, channel_id)))
      p1 == s1.cq[1][channel_id]
      s2 == [s1 EXCEPT !.cq[1][channel_id] = <<>>]
      s3 == set_all_counts(s2, p1,
                           CountValue(Len(dialog_ids), "finish", QueuesLeft(s2, channel_id)))
      promises == s3.lq[channel_id]
      s4 == [s3 EXCEPT !.lq[channel_id] = <<>>]
  IN IF promises = <<>>
     THEN [s3 EXCEPT !.failed = TRUE]
     ELSE set_all_chats(s4, promises,
                        ChatsValue(total_count, dialog_ids, "finish",
                                   QueuesLeft(s4, channel_id)))

\* finish_load_channel_recommendations_queries
finish_load_channel_recommendations_queries(s, channel_id, total_count, dialog_ids) ==
  LET p0 == s.cq[0][channel_id]
      s0 == [s EXCEPT !.cq[0][channel_id] = <<>>]
      s1 == set_all_counts(s0, p0,
                           CountValue(total_count, "finish", QueuesLeft(s0, channel_id)))
      p1 == s1.cq[1][channel_id]
      s2 == [s1 EXCEPT !.cq[1][channel_id] = <<>>]
      s3 == set_all_counts(s2, p1,
                           CountValue(total_count, "finish", QueuesLeft(s2, channel_id)))
      promises == s3.lq[channel_id]
      s4 == [s3 EXCEPT !.lq[channel_id] = <<>>]
  IN IF promises = <<>>
     THEN [s3 EXCEPT !.failed = TRUE]
     ELSE set_all_chats(s4, promises,
                        ChatsValue(total_count, dialog_ids, "finish",
                                   QueuesLeft(s4, channel_id)))

\* on_load_channel_recommendations_from_database without lines 316-318: no
\* query is sent for a record that is to reload.
on_load_ignores_reload_time(s, channel_id, value, resolved) ==
  IF close_flag
  THEN fail_load_channel_recommendations_queries(s, channel_id, close_status)
  ELSE IF value = EmptyValue
  THEN reload_channel_recommendations(s, channel_id)
  ELSE
    LET erased == [s EXCEPT !.recs[channel_id] = NoRecord,
                            !.db[get_channel_recommendations_database_key(channel_id)] =
                               EmptyValue]
    IN IF log_event_parse_is_error(value)
       THEN reload_channel_recommendations(erased, channel_id)
       ELSE
         LET recommended_dialogs == parse(EmptyRecommendedDialogs, value)
             s1 == [s EXCEPT !.recs[channel_id] = recommended_dialogs]
             s2 == finish_load_channel_recommendations_queries(
                     s1, channel_id, recommended_dialogs.total_count_,
                     recommended_dialogs.dialog_ids_)
         IN IF ~resolved \/ ~are_suitable_recommended_dialogs(recommended_dialogs)
            THEN reload_channel_recommendations(erased, channel_id)
            ELSE s2

\* on_load_channel_recommendations_from_database that returns while the
\* client is closing, without fail_load_channel_recommendations_queries.
on_load_returns_when_closing(s, channel_id, value, resolved) ==
  IF close_flag
  THEN s
  ELSE IF value = EmptyValue
  THEN reload_channel_recommendations(s, channel_id)
  ELSE
    LET erased == [s EXCEPT !.recs[channel_id] = NoRecord,
                            !.db[get_channel_recommendations_database_key(channel_id)] =
                               EmptyValue]
    IN IF log_event_parse_is_error(value)
       THEN reload_channel_recommendations(erased, channel_id)
       ELSE
         LET recommended_dialogs == parse(EmptyRecommendedDialogs, value)
             s1 == [s EXCEPT !.recs[channel_id] = recommended_dialogs]
             s2 == finish_load_channel_recommendations_queries(
                     s1, channel_id, recommended_dialogs.total_count_,
                     recommended_dialogs.dialog_ids_)
         IN IF ~resolved \/ ~are_suitable_recommended_dialogs(recommended_dialogs)
            THEN reload_channel_recommendations(erased, channel_id)
            ELSE IF recommended_dialogs.next_reload_time_ <= now
            THEN load_channel_recommendations(s2, channel_id, FALSE, FALSE,
                                              NoPromise, NoPromise)
            ELSE s2

\* on_load_channel_recommendations_from_database that hands the error of
\* log_event_parse to the waiting promises.
on_load_fails_on_parse_error(s, channel_id, value, resolved) ==
  IF close_flag
  THEN fail_load_channel_recommendations_queries(s, channel_id, close_status)
  ELSE IF value = EmptyValue
  THEN reload_channel_recommendations(s, channel_id)
  ELSE
    LET erased == [s EXCEPT !.recs[channel_id] = NoRecord,
                            !.db[get_channel_recommendations_database_key(channel_id)] =
                               EmptyValue]
    IN IF log_event_parse_is_error(value)
       THEN fail_load_channel_recommendations_queries(erased, channel_id, "Can't parse")
       ELSE
         LET recommended_dialogs == parse(EmptyRecommendedDialogs, value)
             s1 == [s EXCEPT !.recs[channel_id] = recommended_dialogs]
             s2 == finish_load_channel_recommendations_queries(
                     s1, channel_id, recommended_dialogs.total_count_,
                     recommended_dialogs.dialog_ids_)
         IN IF ~resolved \/ ~are_suitable_recommended_dialogs(recommended_dialogs)
            THEN reload_channel_recommendations(erased, channel_id)
            ELSE IF recommended_dialogs.next_reload_time_ <= now
            THEN load_channel_recommendations(s2, channel_id, FALSE, FALSE,
                                              NoPromise, NoPromise)
            ELSE s2

\* on_load_channel_recommendations_from_database; `resolved` is the result of
\* dependencies.resolve_force.
on_load_channel_recommendations_from_database(s, channel_id, value, resolved) ==
  IF close_flag
  THEN fail_load_channel_recommendations_queries(s, channel_id, close_status)
  ELSE IF value = EmptyValue
  THEN reload_channel_recommendations(s, channel_id)
  ELSE
    LET into == IF s.recs[channel_id] = NoRecord THEN EmptyRecommendedDialogs
                ELSE s.recs[channel_id]
        erased == [s EXCEPT !.recs[channel_id] = NoRecord,
                            !.db[get_channel_recommendations_database_key(channel_id)] =
                               EmptyValue]
    IN IF log_event_parse_is_error(value)
       THEN reload_channel_recommendations(erased, channel_id)
       ELSE
         LET recommended_dialogs == parse(into, value)
             s1 == [s EXCEPT !.recs[channel_id] = recommended_dialogs]
             s2 == finish_load_channel_recommendations_queries(
                     s1, channel_id, recommended_dialogs.total_count_,
                     recommended_dialogs.dialog_ids_)
         IN IF ~resolved \/ ~are_suitable_recommended_dialogs(recommended_dialogs)
            THEN reload_channel_recommendations(erased, channel_id)
            ELSE IF recommended_dialogs.next_reload_time_ <= now
            THEN load_channel_recommendations(s2, channel_id, FALSE, FALSE,
                                              NoPromise, NoPromise)
            ELSE s2

\* ContactsManager::get_channel_ids: the channel of each received chat.
get_channel_ids(chats) == [i \in 1 .. Len(chats) |-> chats[i].id]

\* The loop without total_count-- (line 363).
RECURSIVE filter_without_decrement(_, _)
filter_without_decrement(channel_ids, acc) ==
  IF channel_ids = <<>> THEN acc
  ELSE filter_without_decrement(
         Tail(channel_ids),
         IF is_suitable_recommended_channel(Head(channel_ids))
         THEN <<acc[1], Append(acc[2], Head(channel_ids))>>
         ELSE acc)

\* The loop of on_get_channel_recommendations over channel_ids: `acc` is
\* <<total_count, dialog_ids>>.
RECURSIVE filter_channel_ids(_, _)
filter_channel_ids(channel_ids, acc) ==
  IF channel_ids = <<>> THEN acc
  ELSE filter_channel_ids(
         Tail(channel_ids),
         IF is_suitable_recommended_channel(Head(channel_ids))
         THEN <<acc[1], Append(acc[2], Head(channel_ids))>>
         ELSE <<acc[1] - 1, acc[2]>>)

\* G()->ignore_result_if_closing
ignore_result_if_closing(r_chats) ==
  IF close_flag /\ r_chats.ok
  THEN [ok |-> FALSE, error |-> close_status, first |-> 0, second |-> <<>>]
  ELSE r_chats

\* on_get_channel_recommendations without lines 352-356: a total_count
\* below the number of received chats is kept.
on_get_without_clamp(s, channel_id, result) ==
  LET r_chats == ignore_result_if_closing(result)
  IN IF ~r_chats.ok
     THEN fail_load_channel_recommendations_queries(s, channel_id, r_chats.error)
     ELSE
       LET channel_ids == get_channel_ids(r_chats.second)
           total_count == r_chats.first
           filtered == filter_channel_ids(channel_ids, <<total_count, <<>>>>)
           recommended_dialogs ==
             [total_count_ |-> filtered[1], dialog_ids_ |-> filtered[2],
              next_reload_time_ |-> now + CHANNEL_RECOMMENDATIONS_CACHE_TIME]
           s1 == [s EXCEPT !.recs[channel_id] = recommended_dialogs]
           s2 == IF use_message_database
                 THEN [s1 EXCEPT
                         !.db[get_channel_recommendations_database_key(channel_id)] =
                            store(recommended_dialogs)]
                 ELSE s1
       IN finish_load_channel_recommendations_queries(s2, channel_id, filtered[1],
                                                      filtered[2])

\* on_get_channel_recommendations that drops the cached recommendations of
\* the channel when the query failed.
on_get_drops_cache_on_error(s, channel_id, result) ==
  LET r_chats == ignore_result_if_closing(result)
      erased == [s EXCEPT !.recs[channel_id] = NoRecord,
                          !.db[get_channel_recommendations_database_key(channel_id)] =
                             EmptyValue]
  IN IF ~r_chats.ok
     THEN fail_load_channel_recommendations_queries(erased, channel_id, r_chats.error)
     ELSE
       LET channel_ids == get_channel_ids(r_chats.second)
           total_count == IF r_chats.first < Len(channel_ids) THEN Len(channel_ids)
                          ELSE r_chats.first
           filtered == filter_channel_ids(channel_ids, <<total_count, <<>>>>)
           recommended_dialogs ==
             [total_count_ |-> filtered[1], dialog_ids_ |-> filtered[2],
              next_reload_time_ |-> now + CHANNEL_RECOMMENDATIONS_CACHE_TIME]
           s1 == [s EXCEPT !.recs[channel_id] = recommended_dialogs]
           s2 == IF use_message_database
                 THEN [s1 EXCEPT
                         !.db[get_channel_recommendations_database_key(channel_id)] =
                            store(recommended_dialogs)]
                 ELSE s1
       IN finish_load_channel_recommendations_queries(s2, channel_id, filtered[1],
                                                      filtered[2])

\* on_get_channel_recommendations
on_get_channel_recommendations(s, channel_id, result) ==
  LET r_chats == ignore_result_if_closing(result)
  IN IF ~r_chats.ok
     THEN fail_load_channel_recommendations_queries(s, channel_id, r_chats.error)
     ELSE
       LET channel_ids == get_channel_ids(r_chats.second)
           total_count == IF r_chats.first < Len(channel_ids) THEN Len(channel_ids)
                          ELSE r_chats.first
           filtered == filter_channel_ids(channel_ids, <<total_count, <<>>>>)
           recommended_dialogs ==
             [total_count_ |-> filtered[1], dialog_ids_ |-> filtered[2],
              next_reload_time_ |-> now + CHANNEL_RECOMMENDATIONS_CACHE_TIME]
           s1 == [s EXCEPT !.recs[channel_id] = recommended_dialogs]
           s2 == IF use_message_database
                 THEN [s1 EXCEPT
                         !.db[get_channel_recommendations_database_key(channel_id)] =
                            store(recommended_dialogs)]
                 ELSE s1
       IN finish_load_channel_recommendations_queries(s2, channel_id, filtered[1],
                                                      filtered[2])

\* GetChannelRecommendationsQuery::on_result / on_error: the Result handed to
\* the query's promise for a server reply.
query_result(reply) ==
  IF reply.type = "error"
  THEN [ok |-> FALSE, error |-> reply.error, first |-> 0, second |-> <<>>]
  ELSE IF reply.type = "messages_chats"
  THEN [ok |-> TRUE, error |-> "", first |-> Len(reply.chats_), second |-> reply.chats_]
  ELSE [ok |-> TRUE, error |-> "", first |-> reply.count_, second |-> reply.chats_]

\* get_from_cache without the return at line 199: a load follows every
\* answer from the cache.
get_from_cache_and_reload(s, channel_id, it, return_local, chats_promise, count_promise) ==
  LET left == QueuesLeft(s, channel_id)
      s1 == set_count(
              set_chats(s, chats_promise,
                        ChatsValue(it.total_count_, it.dialog_ids_, "get", left)),
              count_promise, CountValue(it.total_count_, "get", left))
  IN load_channel_recommendations(s1, channel_id, FALSE, return_local,
                                  NoPromise, NoPromise)

\* get_from_cache without lines 201-202: the answered promises go on to
\* the load.
get_from_cache_keeps_promises(s, channel_id, it, return_local, chats_promise, count_promise) ==
  LET left == QueuesLeft(s, channel_id)
      s1 == set_count(
              set_chats(s, chats_promise,
                        ChatsValue(it.total_count_, it.dialog_ids_, "get", left)),
              count_promise, CountValue(it.total_count_, "get", left))
  IN IF it.next_reload_time_ > now
     THEN s1
     ELSE load_channel_recommendations(s1, channel_id, FALSE, return_local,
                                       chats_promise, count_promise)

\* get_channel_recommendations, lines 189-202 and 210-213: the cached
\* recommendations `it` are suitable.  They answer the promises; when it is
\* time to reload them, a load without promises follows.
get_from_cache(s, channel_id, it, return_local, chats_promise, count_promise) ==
  LET left == QueuesLeft(s, channel_id)
      s1 == set_count(
              set_chats(s, chats_promise,
                        ChatsValue(it.total_count_, it.dialog_ids_, "get", left)),
              count_promise, CountValue(it.total_count_, "get", left))
  IN IF it.next_reload_time_ > now
     THEN s1
     ELSE load_channel_recommendations(s1, channel_id, FALSE, return_local,
                                       NoPromise, NoPromise)

\* drop_cache that leaves use_database true for the load.
drop_cache_reads_store(s, channel_id, return_local, chats_promise, count_promise) ==
  LET s1 == [s EXCEPT !.recs[channel_id] = NoRecord]
      s2 == IF use_message_database
            THEN [s1 EXCEPT
                    !.db[get_channel_recommendations_database_key(channel_id)] =
                       EmptyValue]
            ELSE s1
  IN load_channel_recommendations(s2, channel_id, TRUE, return_local,
                                  chats_promise, count_promise)

\* A get that loads anew from the server but keeps the recommendations that
\* are not suitable in the cache and in the store.
drop_cache_keeps_record(s, channel_id, return_local, chats_promise, count_promise) ==
  load_channel_recommendations(s, channel_id, FALSE, return_local,
                               chats_promise, count_promise)

\* get_channel_recommendations, lines 203-213: the cached recommendations are
\* not suitable.  They are dropped, from the store too, and loaded anew from
\* the server.
drop_cache(s, channel_id, return_local, chats_promise, count_promise) ==
  LET s1 == [s EXCEPT !.recs[channel_id] = NoRecord]
      s2 == IF use_message_database
            THEN [s1 EXCEPT
                    !.db[get_channel_recommendations_database_key(channel_id)] =
                       EmptyValue]
            ELSE s1
  IN load_channel_recommendations(s2, channel_id, FALSE, return_local,
                                  chats_promise, count_promise)

\* get_channel_recommendations that answers a dialog that is no broadcast
\* channel like a dialog the client does not know.
get_fails_without_broadcast_channel(s, dialog_id, return_local, chats_promise, count_promise) ==
  IF ~have_dialog_force(dialog_id) \/ ~is_broadcast_channel(dialog_id)
  THEN set_count(set_chats(s, chats_promise, ChatsError("Chat not found", "get", 0)),
                 count_promise, CountError("Chat not found", "get", 0))
  ELSE
    LET channel_id == dialog_id
        it == s.recs[channel_id]
    IN IF it = NoRecord
       THEN load_channel_recommendations(s, channel_id, TRUE, return_local,
                                         chats_promise, count_promise)
       ELSE IF are_suitable_recommended_dialogs(it)
       THEN get_from_cache(s, channel_id, it, return_local, chats_promise, count_promise)
       ELSE drop_cache(s, channel_id, return_local, chats_promise, count_promise)

\* get_channel_recommendations; a call's promises are named by the call's
\* number.
get_channel_recommendations(s, dialog_id, return_local, chats_promise, count_promise) ==
  IF ~have_dialog_force(dialog_id)
  THEN set_count(set_chats(s, chats_promise, ChatsError("Chat not found", "get", 0)),
                 count_promise, CountError("Chat not found", "get", 0))
  ELSE IF ~is_broadcast_channel(dialog_id)
  THEN set_count(set_chats(s, chats_promise, ChatsValue(0, <<>>, "get", 0)),
                 count_promise, CountValue(0, "get", 0))
  ELSE
    LET channel_id == dialog_id
        it == s.recs[channel_id]
    IN IF it = NoRecord
       THEN load_channel_recommendations(s, channel_id, TRUE, return_local,
                                         chats_promise, count_promise)
       ELSE IF are_suitable_recommended_dialogs(it)
       THEN get_from_cache(s, channel_id, it, return_local, chats_promise, count_promise)
       ELSE drop_cache(s, channel_id, return_local, chats_promise, count_promise)

\* ------------------------------------------------------------ the system
\* The replies of the server to channels.getChannelRecommendations.
Replies ==
  {[type |-> "error", error |-> e, count_ |-> 0, chats_ |-> <<>>] : e \in FetchErrors}
  \cup {[type |-> "messages_chats", error |-> "", count_ |-> 0, chats_ |-> l] :
          l \in RawLists}
  \cup {[type |-> "messages_chatsSlice", error |-> "", count_ |-> n, chats_ |-> l] :
          n \in RawTotals, l \in RawLists}

\* What the store can hold when the manager is constructed: nothing, bytes
\* that do not parse, or a record an earlier run of the manager stored.
StoredBefore ==
  {store([total_count_ |-> 2, dialog_ids_ |-> <<"a">>, next_reload_time_ |-> 1])}
InitValues == {EmptyValue, BadValue} \cup StoredBefore

\* The manager's variables after a handler that left the state s.
Commit(s) ==
  /\ channel_recommended_dialogs_' = s.recs
  /\ get_channel_recommendations_queries_' = s.lq
  /\ get_channel_recommendation_count_queries_' = s.cq
  /\ sqlite_pmc' = s.db
  /\ pmc_gets' = s.gets
  /\ net_queries' = s.net
  /\ check_failed' = s.failed
  /\ chats_result' = s.chats
  /\ count_result' = s.counts

env == <<now, not_suitable, is_premium, close_flag, use_message_database>>
manager == <<channel_recommended_dialogs_, get_channel_recommendations_queries_,
             get_channel_recommendation_count_queries_, sqlite_pmc, pmc_gets,
             net_queries, check_failed, chats_result, count_result>>

Init ==
  /\ channel_recommended_dialogs_ = [c \in CacheKeys |-> NoRecord]
  /\ get_channel_recommendations_queries_ = [c \in CacheKeys |-> <<>>]
  /\ get_channel_recommendation_count_queries_ =
       [i \in 0 .. 1 |-> [c \in CacheKeys |-> <<>>]]
  /\ use_message_database \in BOOLEAN
  \* the constructor erases the store's records when the message database is off
  /\ sqlite_pmc \in [DatabaseKeys -> IF use_message_database THEN InitValues
                                     ELSE {EmptyValue}]
  /\ pmc_gets = [c \in CacheKeys |-> <<>>]
  /\ net_queries = [c \in CacheKeys |-> 0]
  /\ check_failed = FALSE
  /\ now = 0
  /\ not_suitable = {}
  /\ is_premium = FALSE
  /\ close_flag = FALSE
  /\ calls = <<>>
  /\ chats_result = [c \in Calls |-> <<>>]
  /\ count_result = [c \in Calls |-> <<>>]
  /\ dropped = {}
  /\ last_fetch = [c \in CacheKeys |-> "none"]
  /\ parse_failed = [c \in CacheKeys |-> FALSE]

\* The loads in flight for a channel: get requests to the store and queries
\* to the server.
InFlight(channel_id) == Len(pmc_gets[channel_id]) + net_queries[channel_id]

\* The calls whose promises wait in the queues of a channel.
QueuedChats(channel_id) ==
  {get_channel_recommendations_queries_[channel_id][i] :
     i \in 1 .. Len(get_channel_recommendations_queries_[channel_id])} \ {NoPromise}
QueuedCount(return_local, channel_id) ==
  {get_channel_recommendation_count_queries_[return_local][channel_id][i] :
     i \in 1 .. Len(get_channel_recommendation_count_queries_[return_local][channel_id])}
Waiting(channel_id) ==
  QueuedChats(channel_id) \cup QueuedCount(0, channel_id) \cup QueuedCount(1, channel_id)

\* A request getChatSimilarChats / getChatSimilarChatCount reaches the manager;
\* the history keeps what the call found: whether the channel had cached
\* recommendations, suitable ones, ones not yet to reload, the loads then in
\* flight and the calls then waiting for the channel.
Get(dialog_id, return_local, want_chats, want_count) ==
  /\ ~check_failed
  /\ Len(calls) < MaxCalls
  /\ want_chats \/ want_count
  /\ LET call == Len(calls) + 1
         found == IF dialog_id \in CacheKeys
                  THEN channel_recommended_dialogs_[dialog_id] ELSE NoRecord
         s == get_channel_recommendations(
                M, dialog_id, return_local,
                IF want_chats THEN call ELSE NoPromise,
                IF want_count THEN call ELSE NoPromise)
     IN /\ Commit(s)
        /\ calls' = Append(calls, [dialog_id |-> dialog_id, return_local |-> return_local,
                                   want_chats |-> want_chats, want_count |-> want_count,
                                   cached |-> found # NoRecord,
                                   suitable |-> found # NoRecord /\ are_suitable_recommended_dialogs(found),
                                   fresh |-> found # NoRecord /\ found.next_reload_time_ > now,
                                   loading |-> IF dialog_id \in CacheKeys
                                               THEN InFlight(dialog_id) ELSE 0,
                                   waiting |-> IF dialog_id \in CacheKeys
                                               THEN Waiting(dialog_id) ELSE {}])
        /\ dropped' = IF /\ dialog_id \in CacheKeys
                         /\ found # NoRecord
                         /\ s.recs[dialog_id] = NoRecord
                      THEN dropped \cup {dialog_id} ELSE dropped
        /\ UNCHANGED <<last_fetch, parse_failed>>
  /\ UNCHANGED env

\* on_load_channel_recommendations_from_database takes the branch of line
\* 296 for the bytes `value` read from the store: they do not parse.
parse_fails(value) ==
  ~close_flag /\ value # EmptyValue /\ log_event_parse_is_error(value)

\* The store answers a get request of the manager.
OnLoadFromDatabase(channel_id, resolved) ==
  /\ ~check_failed
  /\ pmc_gets[channel_id] # <<>>
  /\ LET value == Head(pmc_gets[channel_id])
         s == on_load_channel_recommendations_from_database(
                [M EXCEPT !.gets[channel_id] = Tail(@)], channel_id, value, resolved)
     IN /\ Commit(s)
        /\ parse_failed' = [parse_failed EXCEPT ![channel_id] = parse_fails(value)]
  /\ UNCHANGED <<env, calls, dropped, last_fetch>>

\* A GetChannelRecommendationsQuery ends with a reply of the server.
OnGetChannelRecommendations(channel_id, reply) ==
  /\ ~check_failed
  /\ net_queries[channel_id] > 0
  /\ LET s == on_get_channel_recommendations(
                [M EXCEPT !.net[channel_id] = @ - 1], channel_id, query_result(reply))
     IN /\ Commit(s)
        /\ dropped' = IF ~close_flag /\ reply.type # "error"
                      THEN dropped \ {channel_id} ELSE dropped
        /\ last_fetch' = [last_fetch EXCEPT ![channel_id] =
                            IF ~close_flag /\ reply.type # "error" THEN "ok" ELSE "failed"]
  /\ UNCHANGED <<env, calls, parse_failed>>

\* The environment: time passes, the user joins or leaves a recommended
\* channel (or loses or gains access to it), the premium option changes,
\* the client starts closing.
Tick ==
  /\ now < MaxTime
  /\ now' = now + 1
  /\ UNCHANGED <<manager, not_suitable, is_premium, close_flag, use_message_database,
                 calls, dropped, last_fetch, parse_failed>>

SetSuitable(dialog_id) ==
  /\ not_suitable' = IF dialog_id \in not_suitable THEN not_suitable \ {dialog_id}
                     ELSE not_suitable \cup {dialog_id}
  /\ UNCHANGED <<manager, now, is_premium, close_flag, use_message_database,
                 calls, dropped, last_fetch, parse_failed>>

SetPremium ==
  /\ is_premium' = ~is_premium
  /\ UNCHANGED <<manager, now, not_suitable, close_flag, use_message_database,
                 calls, dropped, last_fetch, parse_failed>>

Close ==
  /\ ~close_flag
  /\ close_flag' = TRUE
  /\ UNCHANGED <<manager, now, not_suitable, is_premium, use_message_database,
                 calls, dropped, last_fetch, parse_failed>>

\* The calls made: one that passes a count promise with return_local = true
\* (and no chats promise), and one that passes a chats promise and a count
\* promise with return_local = false.  Between them they put a promise in
\* each of the three queues.
Requests ==
  {[return_local |-> TRUE, want_chats |-> FALSE, want_count |-> TRUE],
   [return_local |-> FALSE, want_chats |-> TRUE, want_count |-> TRUE]}

\* The recommended channel whose status changes while the manager runs; the
\* other one stays suitable.
ChangingDialogs == {"a"}

Next ==
  \/ \E d \in CacheKeys, r \in Requests :
       Get(d, r.return_local, r.want_chats, r.want_count)
  \/ \E c \in CacheKeys, resolved \in BOOLEAN : OnLoadFromDatabase(c, resolved)
  \/ \E c \in CacheKeys, reply \in Replies : OnGetChannelRecommendations(c, reply)
  \/ Tick
  \/ \E d \in ChangingDialogs : SetSuitable(d)
  \/ SetPremium
  \/ Close

Spec == Init /\ [][Next]_vars

\* The store answers every get request and every query to the server ends:
\* the actors are scheduled until their mailboxes are empty.
StoreAnswers == \E c \in CacheKeys, resolved \in BOOLEAN : OnLoadFromDatabase(c, resolved)
ServerReplies == \E c \in CacheKeys, reply \in Replies : OnGetChannelRecommendations(c, reply)
FairSpec == Init /\ [][Next]_vars /\ WF_vars(StoreAnswers) /\ WF_vars(ServerReplies)

\* The calls as well that get_channel_recommendations rejects: for a dialog
\* the client does not know, and for a channel that is no broadcast channel.
\* (They leave the manager as it is, so Spec goes without them.)
RejectedDialogs == SourceDialogs \ CacheKeys
GetRejected ==
  \E d \in RejectedDialogs, r \in Requests :
    Get(d, r.return_local, r.want_chats, r.want_count)
NextWithRejected == Next \/ GetRejected
SpecWithRejected == Init /\ [][NextWithRejected]_vars


\* ------------------------------------------------------------ properties
\* C1: at every moment at most one load (a read of the store or a query to
\* the server) is in flight for a channel, however many calls wait for it.
C1_OneLoadInFlight == \A c \in CacheKeys : InFlight(c) <= 1

\* Two calls wait for a channel and one query to the server is in flight.
C1_Witness ==
  \E c \in CacheKeys :
    /\ Len(get_channel_recommendations_queries_[c]) >= 2
    /\ net_queries[c] = 1
    /\ pmc_gets[c] = <<>>


\* ---- what the calls received
Made == 1 .. Len(calls)
ChatsAnswers(c) == {chats_result[c][i] : i \in 1 .. Len(chats_result[c])}
CountAnswers(c) == {count_result[c][i] : i \in 1 .. Len(count_result[c])}
Answered(c) ==
  /\ calls[c].want_chats => chats_result[c] # <<>>
  /\ calls[c].want_count => count_result[c] # <<>>

\* Call c2 was made while call c1 waited for the same channel, and neither
\* found cached recommendations.
Concurrent(c1, c2) ==
  /\ c1 \in calls[c2].waiting
  /\ calls[c1].dialog_id = calls[c2].dialog_id
  /\ ~calls[c1].cached /\ ~calls[c2].cached

\* The count -1 that reload_channel_recommendations gives.
IsSentinel(o) == o.kind = "value" /\ o.count = -1 /\ o.via = "reload"

SameError(o1, o2) == o1.kind = o2.kind /\ o1.error = o2.error
ChatsAgree(o1, o2) ==
  /\ SameError(o1, o2)
  /\ o1.total_count = o2.total_count
  /\ o1.dialog_ids = o2.dialog_ids
ChatsCountAgree(o1, o2) == SameError(o1, o2) /\ o1.total_count = o2.count
CountsAgree(o1, o2) == SameError(o1, o2) /\ o1.count = o2.count

\* The answers of two calls are one result: the same error, or the same
\* chats and total count.  `counted` are the count answers held to it.
OneResult(c1, c2, counted(_)) ==
  /\ \A o1 \in ChatsAnswers(c1) \cup ChatsAnswers(c2), o2 \in ChatsAnswers(c2) :
       ChatsAgree(o1, o2)
  /\ \A o1 \in ChatsAnswers(c1) \cup ChatsAnswers(c2) :
       \A o2 \in CountAnswers(c1) \cup CountAnswers(c2) :
         counted(o2) => ChatsCountAgree(o1, o2)
  /\ \A o1, o2 \in CountAnswers(c1) \cup CountAnswers(c2) :
       counted(o1) /\ counted(o2) => CountsAgree(o1, o2)

EveryCount(o) == TRUE
RealCount(o) == ~IsSentinel(o)

\* C2 as claimed: concurrent calls for a channel without cached
\* recommendations all receive the same result or the same error, the count
\* callers of either return_local value that same total count.
C2_Original ==
  \A c1, c2 \in Made : Concurrent(c1, c2) => OneResult(c1, c2, EveryCount)

\* C2, amended: concurrent calls for a channel without cached recommendations
\* receive the same result or the same error, except that a count caller
\* with return_local = true may have received -1 instead, when the query to
\* the server was sent while its promise waited.
C2_SameResultOrSentinel ==
  \A c1, c2 \in Made :
    /\ Concurrent(c1, c2) => OneResult(c1, c2, RealCount)
    /\ \A o \in CountAnswers(c1) : IsSentinel(o) => calls[c1].return_local

\* A return_local count call and a call for chats and count waited together:
\* the first received -1, the second the chats with their total count.
C2_Witness ==
  \E c1, c2 \in Made :
    /\ Concurrent(c1, c2)
    /\ \E o \in CountAnswers(c1) : IsSentinel(o)
    /\ \E o1 \in ChatsAnswers(c2), o2 \in CountAnswers(c2) :
         /\ o1.kind = "value" /\ o1.total_count = 3 /\ Len(o1.dialog_ids) = 2
         /\ o2.kind = "value" /\ o2.count = 3


\* ---- the steps of the handlers
\* The step is the handling of a reply of the server for the channel that is
\* no error, while the client is not closing.
FetchSucceeds(channel_id) ==
  /\ ~close_flag
  /\ \E reply \in Replies :
       reply.type # "error" /\ OnGetChannelRecommendations(channel_id, reply)

\* The step is the handling of the store's answer for the channel, and the
\* answer is a record that parses, resolves and is suitable.
LoadSucceeds(channel_id) ==
  /\ ~close_flag
  /\ pmc_gets[channel_id] # <<>>
  /\ Head(pmc_gets[channel_id]).bytes = "log_event"
  /\ are_suitable_recommended_dialogs(
       parse(EmptyRecommendedDialogs, Head(pmc_gets[channel_id])))
  /\ OnLoadFromDatabase(channel_id, TRUE)

\* The answer a promise of call c received in the step.
GotChats(c, o) == chats_result'[c] = Append(chats_result[c], o)
GotCount(c, o) == count_result'[c] = Append(count_result[c], o)

\* The step answers every promise waiting for the channel from the record
\* the memory holds after it, and leaves no promise of a call in the queues.
\* LeftOfCount(n): n queues of the channel existed when a count promise was
\* answered.
FanOut(channel_id, LeftOfCount(_)) ==
  LET rec == channel_recommended_dialogs_'[channel_id] IN
  /\ ~check_failed'
  /\ rec # NoRecord
  /\ \A c \in QueuedChats(channel_id) :
       \E left \in {0} :
         GotChats(c, ChatsValue(rec.total_count_, rec.dialog_ids_, "finish", left))
  /\ \A c \in QueuedCount(0, channel_id) \cup QueuedCount(1, channel_id) :
       \E left \in 0 .. 2 :
         /\ LeftOfCount(left)
         /\ GotCount(c, CountValue(rec.total_count_, "finish", left))
  /\ Waiting(channel_id)' = {}
  /\ get_channel_recommendation_count_queries_'[0][channel_id] = <<>>
  /\ get_channel_recommendation_count_queries_'[1][channel_id] = <<>>

NoQueueLeft(n) == n = 0
ChatsQueueLeft(n) == n >= 1

\* C3 as claimed: a load that succeeds answers every waiting chats promise
\* with the record in memory and every waiting count promise with its total
\* count, all three queues being removed before any promise is answered.
C3_Original ==
  [][\A c \in CacheKeys : FetchSucceeds(c) \/ LoadSucceeds(c) => FanOut(c, NoQueueLeft)]_vars

\* C3, amended: a load that succeeds answers every waiting chats promise with
\* the record in memory and every waiting count promise with its total count;
\* each queue is removed before its own promises are answered, the queue of
\* chats promises last, so the count promises are answered while that queue
\* still exists; the handler leaves none of the three queues.
C3_FanOutFromRecord ==
  [][\A c \in CacheKeys : FetchSucceeds(c) \/ LoadSucceeds(c) => FanOut(c, ChatsQueueLeft)]_vars

\* One load answered a call for chats and count and a return_local count
\* call, all with the total count 3.
C3_Witness ==
  \E c1, c2 \in Made :
    /\ c1 # c2
    /\ \E o \in ChatsAnswers(c1) : o.via = "finish" /\ o.total_count = 3 /\ o.left = 0
    /\ \E o \in CountAnswers(c1) : o.via = "finish" /\ o.count = 3 /\ o.left = 2
    /\ calls[c2].return_local
    /\ \E o \in CountAnswers(c2) : o.via = "finish" /\ o.count = 3 /\ o.left = 1
    /\ Waiting(calls[c1].dialog_id) = {}


\* The step is a call of get_channel_recommendations; NewCall is its number.
GetStep == Len(calls') = Len(calls) + 1
NewCall == Len(calls')

\* The call of the step is answered from the record rec, in the call.
AnsweredFrom(rec) ==
  LET req == calls'[NewCall] IN
  /\ IF req.want_chats
     THEN \E left \in 0 .. 3 :
            GotChats(NewCall, ChatsValue(rec.total_count_, rec.dialog_ids_, "get", left))
     ELSE chats_result'[NewCall] = <<>>
  /\ IF req.want_count
     THEN \E left \in 0 .. 3 :
            GotCount(NewCall, CountValue(rec.total_count_, "get", left))
     ELSE count_result'[NewCall] = <<>>
  /\ \A c \in Made : chats_result'[c] = chats_result[c] /\ count_result'[c] = count_result[c]

\* C4: a call that finds cached recommendations that are suitable and not yet
\* to reload is answered from them in the call; it starts no read of the
\* store and no query, and leaves the cache, the store and the queues as
\* they were.
C4_FreshHit ==
  [][GetStep /\ calls'[NewCall].suitable /\ calls'[NewCall].fresh
       => /\ AnsweredFrom(channel_recommended_dialogs_[calls'[NewCall].dialog_id])
          /\ UNCHANGED <<channel_recommended_dialogs_, sqlite_pmc, pmc_gets, net_queries,
                         get_channel_recommendations_queries_,
                         get_channel_recommendation_count_queries_>>]_vars

\* A call for chats and count found fresh suitable recommendations and has
\* its two answers, with nothing in flight for the channel.
C4_Witness ==
  \E c \in Made :
    /\ calls[c].suitable /\ calls[c].fresh
    /\ calls[c].want_chats /\ calls[c].want_count
    /\ \E o \in ChatsAnswers(c) : o.via = "get" /\ Len(o.dialog_ids) = 2
    /\ \E o \in CountAnswers(c) : o.via = "get"
    /\ InFlight(calls[c].dialog_id) = 0


\* The call found suitable cached recommendations that were to reload.
StaleHit(req) == req.suitable /\ ~req.fresh

\* C5: a call that finds cached recommendations that are suitable but to
\* reload is answered from them in the call and leaves exactly one query to
\* the server in flight for the channel (sent by the call when none was, not
\* added to one that was) and the cache as it was; no later step gives the
\* call another answer.
C5_StaleHit ==
  [][/\ GetStep /\ StaleHit(calls'[NewCall])
          => LET channel_id == calls'[NewCall].dialog_id IN
             /\ AnsweredFrom(channel_recommended_dialogs_[channel_id])
             /\ net_queries'[channel_id] = 1
             /\ net_queries[channel_id] \in {0, 1}
             /\ pmc_gets'[channel_id] = <<>>
             /\ UNCHANGED <<channel_recommended_dialogs_, sqlite_pmc>>
     /\ \A c \in Made :
          StaleHit(calls[c]) =>
            chats_result'[c] = chats_result[c] /\ count_result'[c] = count_result[c]]_vars

\* A call found suitable recommendations to reload and nothing in flight: it
\* has its answer from the cache and its query to the server has ended,
\* without another answer for the call.
C5_Witness ==
  \E c \in Made :
    /\ StaleHit(calls[c]) /\ calls[c].loading = 0
    /\ calls[c].want_chats /\ calls[c].want_count
    /\ Len(chats_result[c]) = 1 /\ chats_result[c][1].via = "get"
    /\ Len(count_result[c]) = 1 /\ count_result[c][1].via = "get"
    /\ InFlight(calls[c].dialog_id) = 0
    /\ channel_recommended_dialogs_[calls[c].dialog_id] # NoRecord
    /\ channel_recommended_dialogs_[calls[c].dialog_id].next_reload_time_ > now


\* The step is the handling of the server's error for the channel's query.
FetchFails(channel_id, error) ==
  \E reply \in Replies :
    /\ reply.type = "error" /\ reply.error = error
    /\ OnGetChannelRecommendations(channel_id, reply)

\* The step is the handling, while the client is closing, of the store's
\* answer or of a reply of the server that is no error.
CompletesWhileClosing(channel_id) ==
  /\ close_flag
  /\ \/ \E resolved \in BOOLEAN : OnLoadFromDatabase(channel_id, resolved)
     \/ \E reply \in Replies :
          reply.type # "error" /\ OnGetChannelRecommendations(channel_id, reply)

\* The step gives the error to every promise waiting for the channel and
\* leaves the channel no queue.
FailAll(channel_id, error) ==
  /\ ~check_failed'
  /\ \A c \in QueuedChats(channel_id) :
       \E left \in 0 .. 2 : GotChats(c, ChatsError(error, "fail", left))
  /\ \A c \in QueuedCount(0, channel_id) \cup QueuedCount(1, channel_id) :
       \E left \in 0 .. 2 : GotCount(c, CountError(error, "fail", left))
  /\ get_channel_recommendations_queries_'[channel_id] = <<>>
  /\ get_channel_recommendation_count_queries_'[0][channel_id] = <<>>
  /\ get_channel_recommendation_count_queries_'[1][channel_id] = <<>>

\* C6: when the query for a channel fails, every promise then waiting for
\* the channel (chats, count of both return_local values) receives the
\* query's error, and when a store answer or a reply arrives while the
\* client is closing, the close status; the channel's queues are emptied.
C6_FailAll ==
  [][\A c \in CacheKeys :
       /\ \A e \in FetchErrors : FetchFails(c, e) => FailAll(c, e)
       /\ CompletesWhileClosing(c) => FailAll(c, close_status)]_vars

\* A call for chats and count and a return_local count call received the
\* error of the same failed query.
C6_Witness ==
  \E c1, c2 \in Made, e \in FetchErrors :
    /\ c1 # c2
    /\ \E o \in ChatsAnswers(c1) : o.kind = "error" /\ o.error = e
    /\ \E o \in CountAnswers(c1) : o.kind = "error" /\ o.error = e
    /\ calls[c2].return_local
    /\ \E o \in CountAnswers(c2) : o.kind = "error" /\ o.error = e
    /\ Waiting(calls[c1].dialog_id) = {}


\* The step handles a reply for the channel's query that ends as a failure:
\* an error of the server, or any reply while the client is closing.
FetchEndsInError(channel_id) ==
  \/ \E e \in FetchErrors : FetchFails(channel_id, e)
  \/ /\ close_flag
     /\ \E reply \in Replies : OnGetChannelRecommendations(channel_id, reply)

\* C7: a failed query leaves the channel's cached recommendations and its
\* record in the store as they were, and a call that then finds suitable
\* cached recommendations to reload is answered from them.
C7_FailureKeepsCache ==
  [][/\ \A c \in CacheKeys :
          FetchEndsInError(c) =>
            /\ channel_recommended_dialogs_'[c] = channel_recommended_dialogs_[c]
            /\ sqlite_pmc' = sqlite_pmc
     /\ (GetStep /\ StaleHit(calls'[NewCall])
           /\ last_fetch[calls'[NewCall].dialog_id] = "failed")
          => AnsweredFrom(channel_recommended_dialogs_[calls'[NewCall].dialog_id])]_vars

\* The channel's last query failed, and a call after it found the suitable
\* recommendations to reload still cached and was answered from them.
C7_Witness ==
  \E c \in Made :
    /\ StaleHit(calls[c]) /\ calls[c].loading = 0
    /\ last_fetch[calls[c].dialog_id] = "failed"
    /\ net_queries[calls[c].dialog_id] = 1
    /\ \E o \in ChatsAnswers(c) :
         /\ o.via = "get"
         /\ o.dialog_ids = channel_recommended_dialogs_[calls[c].dialog_id].dialog_ids_
    /\ sqlite_pmc[get_channel_recommendations_database_key(calls[c].dialog_id)] =
         store(channel_recommended_dialogs_[calls[c].dialog_id])


\* total_count_ covers the recommended dialogs of the record.
CountCoversDialogs(rec) == rec.total_count_ >= Len(rec.dialog_ids_) /\ Len(rec.dialog_ids_) >= 0

\* C8: every record in memory, every record in the store and every record a
\* read of the store carries has total_count >= number of its dialogs >= 0,
\* whatever count the server reported; and no promise receives a negative
\* count other than the -1 of reload_channel_recommendations.
C8_TotalCountCoversDialogs ==
  /\ \A c \in CacheKeys :
       /\ channel_recommended_dialogs_[c] # NoRecord
            => CountCoversDialogs(channel_recommended_dialogs_[c])
       /\ \A i \in 1 .. Len(pmc_gets[c]) :
            pmc_gets[c][i].bytes = "log_event"
              => CountCoversDialogs(parse(EmptyRecommendedDialogs, pmc_gets[c][i]))
  /\ \A k \in DatabaseKeys :
       sqlite_pmc[k].bytes = "log_event"
         => CountCoversDialogs(parse(EmptyRecommendedDialogs, sqlite_pmc[k]))
  /\ \A c \in Made :
       /\ \A o \in ChatsAnswers(c) :
            o.kind = "value" => o.total_count >= Len(o.dialog_ids)
       /\ \A o \in CountAnswers(c) :
            o.kind = "value" => o.count >= 0 \/ IsSentinel(o)

\* The server reported 3 and sent two chats of which one is not suitable: the
\* record with total count 2 and one dialog is in memory and in the store,
\* and a call received it.
C8_Witness ==
  \E c \in CacheKeys, n \in Made :
    /\ channel_recommended_dialogs_[c] # NoRecord
    /\ channel_recommended_dialogs_[c].total_count_ = 2
    /\ channel_recommended_dialogs_[c].dialog_ids_ = <<"b">>
    /\ sqlite_pmc[get_channel_recommendations_database_key(c)] =
         store(channel_recommended_dialogs_[c])
    /\ \E o \in ChatsAnswers(n) : o.via = "finish" /\ o.total_count = 2
    /\ \E o \in CountAnswers(n) : o.via = "finish" /\ o.count = 2


\* ---- the record a reply of the server is to give
RawTotal(reply) ==
  IF reply.type = "messages_chats" THEN Len(reply.chats_) ELSE reply.count_
RawDialogs(reply) == [i \in 1 .. Len(reply.chats_) |-> reply.chats_[i].id]
PassesNow(dialog_id) == dialog_id \notin not_suitable
Larger(a, b) == IF a >= b THEN a ELSE b
Reconciled(reply) ==
  LET passing == SelectSeq(RawDialogs(reply), PassesNow)
      rejected == Len(reply.chats_) - Len(passing)
  IN [total_count_ |-> Larger(RawTotal(reply), Len(reply.chats_)) - rejected,
      dialog_ids_ |-> passing,
      next_reload_time_ |-> now + CHANNEL_RECOMMENDATIONS_CACHE_TIME]

\* C9: after a reply (rawTotal, rawList) of the server that is no error, the
\* channel's record in memory is exactly: the chats of rawList that pass the
\* suitability check, in the server's order; max(rawTotal, len(rawList)) less
\* the number of rejected chats; reload time now + the cache time.  Nothing of
\* the record it replaces is kept, and with the message database the store
\* holds the same record.
C9_ReconciledRecord ==
  [][\A c \in CacheKeys, reply \in Replies :
       ~close_flag /\ reply.type # "error" /\ OnGetChannelRecommendations(c, reply)
         => /\ channel_recommended_dialogs_'[c] = Reconciled(reply)
            /\ use_message_database
                 => parse(EmptyRecommendedDialogs,
                          sqlite_pmc'[get_channel_recommendations_database_key(c)])
                      = Reconciled(reply)]_vars

\* The reply (3, [a, b]) with both chats suitable replaced the record (2, [a])
\* loaded from the store: the record (3, [a, b]) is in memory and in the
\* store, to reload at now + the cache time.
C9_Witness ==
  \E c \in CacheKeys, n \in Made :
    /\ \E o \in ChatsAnswers(n) :
         o.via = "finish" /\ o.total_count = 2 /\ o.dialog_ids = <<"a">>
    /\ channel_recommended_dialogs_[c] =
         [total_count_ |-> 3, dialog_ids_ |-> <<"a", "b">>,
          next_reload_time_ |-> now + CHANNEL_RECOMMENDATIONS_CACHE_TIME]
    /\ sqlite_pmc[get_channel_recommendations_database_key(c)] =
         store(channel_recommended_dialogs_[c])
    /\ last_fetch[c] = "ok"


\* ---- cached recommendations that are not suitable
\* The call found cached recommendations that were not suitable.
FoundUnsuitable(req) == req.cached /\ ~req.suitable

\* The answer call c received in the step, if it received one.
NewChats(c) == chats_result'[c][Len(chats_result'[c])]
NewCount(c) == count_result'[c][Len(count_result'[c])]

\* C10: a call that finds cached recommendations that are not suitable (a
\* recommended channel fails the check, or the recommendations are partial
\* and the user is premium) removes the whole record from the cache and, with
\* the message database, erases it from the store; the call is not answered
\* from the record: in the call it receives nothing but, for a return_local
\* count, -1, and later an error or the recommendations of a reply of the
\* server handled then; the cache holds no record for the channel until a
\* reply of the server that is no error is handled.
C10_UnsuitableDropped ==
  /\ [](\A c \in dropped : channel_recommended_dialogs_[c] = NoRecord)
  /\ [][GetStep /\ FoundUnsuitable(calls'[NewCall])
          => LET channel_id == calls'[NewCall].dialog_id IN
             /\ channel_recommended_dialogs_[channel_id] # NoRecord
             /\ channel_recommended_dialogs_'[channel_id] = NoRecord
             /\ channel_id \in dropped'
             /\ use_message_database =>
                  sqlite_pmc'[get_channel_recommendations_database_key(channel_id)]
                    = EmptyValue
             /\ chats_result'[NewCall] = <<>>
             /\ \A i \in 1 .. Len(count_result'[NewCall]) :
                  IsSentinel(count_result'[NewCall][i])]_vars
  /\ [][\A c \in Made :
          FoundUnsuitable(calls[c]) =>
            /\ chats_result'[c] # chats_result[c] =>
                 \/ NewChats(c).kind = "error"
                 \/ /\ FetchSucceeds(calls[c].dialog_id)
                    /\ NewChats(c).dialog_ids =
                         channel_recommended_dialogs_'[calls[c].dialog_id].dialog_ids_
            /\ count_result'[c] # count_result[c] =>
                 \/ NewCount(c).kind = "error"
                 \/ IsSentinel(NewCount(c))
                 \/ /\ FetchSucceeds(calls[c].dialog_id)
                    /\ NewCount(c).count =
                         channel_recommended_dialogs_'[calls[c].dialog_id].total_count_]_vars

\* With the message database, a call for chats found recommendations that
\* were not suitable: the cache and the store hold nothing for the channel,
\* the call waits without an answer, and one query to the server is in flight.
C10_Witness ==
  \E c \in Made :
    /\ FoundUnsuitable(calls[c])
    /\ calls[c].want_chats
    /\ chats_result[c] = <<>>
    /\ calls[c].dialog_id \in dropped
    /\ channel_recommended_dialogs_[calls[c].dialog_id] = NoRecord
    /\ use_message_database
    /\ sqlite_pmc[get_channel_recommendations_database_key(calls[c].dialog_id)]
         = EmptyValue
    /\ net_queries[calls[c].dialog_id] = 1


\* ---- bytes of the store that do not parse
\* The step is the handling of the store's answer for the channel, and the
\* answer is bytes that do not parse.
ReadUnparsed(channel_id) ==
  /\ pmc_gets[channel_id] # <<>>
  /\ parse_fails(Head(pmc_gets[channel_id]))
  /\ \E resolved \in BOOLEAN : OnLoadFromDatabase(channel_id, resolved)

\* C11: when the store's answer for a channel is bytes that do not parse, no
\* waiting promise receives an error: the cache holds no record for the
\* channel, the store's entry is erased and a query to the server is sent in
\* the same step, the chats promises and the count promises without
\* return_local staying queued (the return_local count promises receive -1);
\* when that query ends with a reply that is no error, the store holds the
\* record of the reply and every promise still queued is answered from it.
C11_SelfHeal ==
  /\ [][\A c \in CacheKeys :
          ReadUnparsed(c) =>
            /\ channel_recommended_dialogs_'[c] = NoRecord
            /\ sqlite_pmc'[get_channel_recommendations_database_key(c)] = EmptyValue
            /\ net_queries[c] = 0 /\ net_queries'[c] = 1 /\ pmc_gets'[c] = <<>>
            /\ get_channel_recommendations_queries_'[c] =
                 get_channel_recommendations_queries_[c]
            /\ get_channel_recommendation_count_queries_'[0][c] =
                 get_channel_recommendation_count_queries_[0][c]
            /\ chats_result' = chats_result
            /\ \A n \in Made :
                 count_result'[n] # count_result[n] =>
                   calls[n].return_local /\ IsSentinel(NewCount(n))]_vars
  /\ [][\A c \in CacheKeys :
          parse_failed[c] /\ FetchSucceeds(c) =>
            /\ FanOut(c, ChatsQueueLeft)
            /\ sqlite_pmc'[get_channel_recommendations_database_key(c)] =
                 store(channel_recommended_dialogs_'[c])]_vars

\* The store held bytes that did not parse; the query sent then was answered
\* with (3, [a, b]), which the store now holds and a call that waited since
\* before the read received.
C11_Witness ==
  \E c \in CacheKeys, n \in Made :
    /\ parse_failed[c]
    /\ last_fetch[c] = "ok"
    /\ calls[n].dialog_id = c /\ calls[n].loading = 0
    /\ \E o \in ChatsAnswers(n) :
         o.via = "finish" /\ o.total_count = 3 /\ o.dialog_ids = <<"a", "b">>
    /\ sqlite_pmc[get_channel_recommendations_database_key(c)].bytes = "log_event"
    /\ sqlite_pmc[get_channel_recommendations_database_key(c)].dialog_ids = <<"a", "b">>


\* ---- calls that are rejected
\* The call of the step receives the chats answer / the count answer and no
\* other answer is given.
OnlyAnswer(chats, count) ==
  LET req == calls'[NewCall] IN
  /\ chats_result' = [chats_result EXCEPT ![NewCall] =
                        IF req.want_chats THEN <<chats>> ELSE <<>>]
  /\ count_result' = [count_result EXCEPT ![NewCall] =
                        IF req.want_count THEN <<count>> ELSE <<>>]

\* C12: a call for a dialog the client does not know gives each promise it
\* passed the error "Chat not found"; a call for a known dialog that is no
\* broadcast channel gives the chats promise no chats with total count 0 and
\* the count promise 0, no error.  Either call leaves the cache, the store
\* and the queues as they were and starts no read of the store and no query.
C12_Rejected ==
  [][GetStep /\ calls'[NewCall].dialog_id \notin CacheKeys
       => /\ UNCHANGED <<channel_recommended_dialogs_, sqlite_pmc, pmc_gets, net_queries,
                         get_channel_recommendations_queries_,
                         get_channel_recommendation_count_queries_, check_failed>>
          /\ IF have_dialog_force(calls'[NewCall].dialog_id)
             THEN OnlyAnswer(ChatsValue(0, <<>>, "get", 0), CountValue(0, "get", 0))
             ELSE OnlyAnswer(ChatsError("Chat not found", "get", 0),
                             CountError("Chat not found", "get", 0))]_vars

\* A call for an unknown dialog has received the error for its chats and its
\* count, and a call for a supergroup no chats and the count 0.
C12_Witness ==
  \E n1, n2 \in Made :
    /\ calls[n1].dialog_id = "nodialog"
    /\ chats_result[n1] = <<ChatsError("Chat not found", "get", 0)>>
    /\ count_result[n1] = <<CountError("Chat not found", "get", 0)>>
    /\ calls[n2].dialog_id = "group"
    /\ chats_result[n2] = <<ChatsValue(0, <<>>, "get", 0)>>
    /\ count_result[n2] = <<CountValue(0, "get", 0)>>


\* ---- the start of a query to the server
\* The step sends a query to the server for the channel.
FetchStarts(channel_id) == net_queries'[channel_id] > net_queries[channel_id]

\* The step is the handling of a reply of the server for the channel.
FetchEnds(channel_id) ==
  \E reply \in Replies : OnGetChannelRecommendations(channel_id, reply)

IsPrefix(q1, q2) == Len(q1) <= Len(q2) /\ SubSeq(q2, 1, Len(q1)) = q1

\* Call n has no answer from the step.
NotAnswered(n) == chats_result'[n] = chats_result[n] /\ count_result'[n] = count_result[n]

\* C13: in the step that sends a query to the server for a channel, every
\* count promise queued with return_local = true (the calling one included)
\* receives -1 and that queue is left empty, unless the query follows the
\* answering of all queues from the store's record; the chats promises and
\* the count promises queued with return_local = false stay queued until
\* the reply to the query is handled; -1 is given to no chats promise and to
\* no count promise passed with return_local = false.
C13_SentinelAtFetchStart ==
  /\ [][\A c \in CacheKeys :
          FetchStarts(c) =>
            /\ get_channel_recommendation_count_queries_'[1][c] = <<>>
            /\ \/ LoadSucceeds(c)
               \/ /\ \A n \in QueuedCount(1, c) :
                       \E left \in 1 .. 2 : GotCount(n, CountValue(-1, "reload", left))
                  /\ IsPrefix(get_channel_recommendations_queries_[c],
                              get_channel_recommendations_queries_'[c])
                  /\ IsPrefix(get_channel_recommendation_count_queries_[0][c],
                              get_channel_recommendation_count_queries_'[0][c])
                  /\ \A n \in QueuedChats(c) \cup QueuedCount(0, c) : NotAnswered(n)
            /\ (/\ GetStep
                /\ calls'[NewCall].return_local /\ calls'[NewCall].want_count
                /\ ~calls'[NewCall].suitable)
                 => \E left \in 1 .. 2 :
                      count_result'[NewCall] = <<CountValue(-1, "reload", left)>>]_vars
  /\ [][\A c \in CacheKeys :
          net_queries[c] > 0 /\ ~FetchEnds(c) =>
            /\ IsPrefix(get_channel_recommendations_queries_[c],
                        get_channel_recommendations_queries_'[c])
            /\ IsPrefix(get_channel_recommendation_count_queries_[0][c],
                        get_channel_recommendation_count_queries_'[0][c])
            /\ \A n \in QueuedChats(c) \cup QueuedCount(0, c) : NotAnswered(n)]_vars
  /\ [](\A n \in Made :
          /\ \A o \in CountAnswers(n) :
               o.kind = "value" /\ o.count = -1 => calls[n].return_local /\ o.via = "reload"
          /\ \A o \in ChatsAnswers(n) : o.kind = "value" => o.total_count # -1)

\* A return_local count call waited for the read of the store with a call
\* for chats and count; the read found nothing, so the query was sent: the
\* first call has received -1 and the second waits in its two queues.
C13_Witness ==
  \E n1, n2 \in Made :
    /\ Concurrent(n1, n2) \/ Concurrent(n2, n1)
    /\ calls[n1].return_local
    /\ count_result[n1] = <<CountValue(-1, "reload", 2)>>
    /\ net_queries[calls[n1].dialog_id] = 1
    /\ n2 \in QueuedChats(calls[n1].dialog_id)
    /\ n2 \in QueuedCount(0, calls[n1].dialog_id)
    /\ chats_result[n2] = <<>> /\ count_result[n2] = <<>>


\* ---- the load after the cache is dropped
\* The call of the step is the first to queue a promise for its channel.
FirstEnqueuer == get_channel_recommendations_queries_[calls'[NewCall].dialog_id] = <<>>

\* The promises the call of the step passed.
ChatsPromise == IF calls'[NewCall].want_chats THEN NewCall ELSE NoPromise

\* C14 as claimed: a call that finds cached recommendations that are not
\* suitable goes on as a call that finds none: when it is the first to queue
\* for the channel and the message database is used, the store is read
\* before any query to the server is sent.
C14_Original ==
  [][GetStep /\ FoundUnsuitable(calls'[NewCall]) /\ FirstEnqueuer /\ use_message_database
       => LET channel_id == calls'[NewCall].dialog_id IN
          /\ pmc_gets'[channel_id] # <<>>
          /\ net_queries'[channel_id] = net_queries[channel_id]]_vars

\* C14, amended: a call that finds cached recommendations that are not
\* suitable, after dropping them, queues its promises as a call that finds
\* none does, but the store is not read: when the call is the first to queue
\* for the channel the query to the server is sent in the call, with the
\* message database or without (so a return_local count promise receives -1
\* in the call); otherwise the call starts nothing and waits for the load in
\* flight.
C14_DropLoadsFromServer ==
  [][GetStep /\ FoundUnsuitable(calls'[NewCall])
       => LET channel_id == calls'[NewCall].dialog_id
              req == calls'[NewCall]
          IN /\ pmc_gets'[channel_id] = <<>> /\ pmc_gets[channel_id] = <<>>
             /\ get_channel_recommendations_queries_'[channel_id] =
                  Append(get_channel_recommendations_queries_[channel_id], ChatsPromise)
             /\ IF FirstEnqueuer
                THEN /\ net_queries[channel_id] = 0 /\ net_queries'[channel_id] = 1
                     /\ get_channel_recommendation_count_queries_'[1][channel_id] = <<>>
                     /\ req.return_local /\ req.want_count =>
                          count_result'[NewCall] = <<CountValue(-1, "reload", 1)>>
                ELSE /\ net_queries[channel_id] = 1 /\ net_queries'[channel_id] = 1
                     /\ req.want_count =>
                          get_channel_recommendation_count_queries_'
                              [ReturnLocalIndex(req.return_local)][channel_id] =
                            Append(get_channel_recommendation_count_queries_
                                     [ReturnLocalIndex(req.return_local)][channel_id],
                                   NewCall)
                     /\ count_result'[NewCall] = <<>>
             /\ ~req.return_local /\ req.want_count =>
                  get_channel_recommendation_count_queries_'[0][channel_id] =
                    Append(get_channel_recommendation_count_queries_[0][channel_id], NewCall)]_vars

\* With the message database, a return_local count call found cached
\* recommendations that were not suitable and nothing in flight: it has
\* received -1, the query to the server is in flight and the store is not
\* being read.
C14_Witness ==
  \E n \in Made :
    /\ FoundUnsuitable(calls[n])
    /\ calls[n].return_local /\ calls[n].loading = 0
    /\ use_message_database
    /\ count_result[n] = <<CountValue(-1, "reload", 1)>>
    /\ net_queries[calls[n].dialog_id] = 1
    /\ pmc_gets[calls[n].dialog_id] = <<>>
    /\ last_fetch[calls[n].dialog_id] = "ok"


\* ---- calls made while a load is in flight
\* The step ends the load of the channel: a reply of the server is handled,
\* or the store's answer is a record that is used, or the store's answer is
\* handled while the client is closing.
Completes(channel_id) ==
  \/ FetchEnds(channel_id)
  \/ LoadSucceeds(channel_id)
  \/ /\ close_flag
     /\ \E resolved \in BOOLEAN : OnLoadFromDatabase(channel_id, resolved)

\* The call was made while nothing was in flight for its channel.
StartedLoad(n) == calls[n].loading = 0

\* C15 as claimed: a call made after the load for its channel has started
\* is not answered when that load ends; the calls answered then are those
\* queued when the load started.
C15_Original ==
  [][\A c \in CacheKeys, n \in Made :
       Completes(c) /\ ~NotAnswered(n) => StartedLoad(n)]_vars

\* C15, amended: a call made while a load for its channel is in flight, and
\* not answered from the cache, starts no load and is queued for the load
\* in flight; the step that ends the load answers exactly the promises
\* queued for the channel at that step, whenever their calls were made, and
\* leaves none queued.
C15_LateCallsJoin ==
  /\ [][\A c \in CacheKeys :
          (/\ GetStep /\ calls'[NewCall].dialog_id = c
           /\ calls'[NewCall].loading > 0 /\ ~calls'[NewCall].suitable)
            => /\ pmc_gets'[c] = pmc_gets[c]
               /\ net_queries'[c] = net_queries[c]
               /\ Waiting(c)' = Waiting(c) \cup {NewCall}
               /\ chats_result'[NewCall] = <<>> /\ count_result'[NewCall] = <<>>]_vars
  /\ [][\A c \in CacheKeys :
          Completes(c) =>
            /\ \A n \in Made :
                 /\ chats_result'[n] # chats_result[n] <=> n \in QueuedChats(c)
                 /\ count_result'[n] # count_result[n] <=>
                      n \in QueuedCount(0, c) \cup QueuedCount(1, c)
            /\ Waiting(c)' = {}]_vars

\* A call for chats and count made while the query for the channel was in
\* flight has received the chats and the count of the reply, as has the call
\* that had the query sent.
C15_Witness ==
  \E n1, n2 \in Made :
    /\ StartedLoad(n1) /\ ~StartedLoad(n2)
    /\ n1 \in calls[n2].waiting
    /\ last_fetch[calls[n2].dialog_id] = "ok"
    /\ \E o1 \in ChatsAnswers(n1), o2 \in ChatsAnswers(n2) :
         /\ o1 = o2
         /\ o1.via = "finish" /\ o1.dialog_ids = <<"a", "b">>
    /\ \E o1 \in CountAnswers(n1), o2 \in CountAnswers(n2) :
         o1 = o2 /\ o1.via = "finish"


\* ---- return_local count promises and the query to the server
\* C16: a count promise passed with return_local = true never waits for a
\* query to the server: none is queued while a query for its channel is in
\* flight, and the handling of the server's reply answers none, neither
\* with the reply's count nor with its error.
C16_Original ==
  /\ [](\A c \in CacheKeys : net_queries[c] > 0 => QueuedCount(1, c) = {})
  /\ [][\A c \in CacheKeys, n \in Made :
          FetchEnds(c) /\ calls[n].return_local => count_result'[n] = count_result[n]]_vars


\* ---- every promise is answered once
AnswersOf(n) == Len(chats_result[n]) + Len(count_result[n])
PromisesOf(n) ==
  (IF calls[n].want_chats THEN 1 ELSE 0) + (IF calls[n].want_count THEN 1 ELSE 0)

\* The answers given in the step are all values of finish_load or all errors
\* of fail_load.
OneFanOut ==
  \E via \in {"finish", "fail"} :
    \A n \in Made :
      /\ chats_result'[n] # chats_result[n] => NewChats(n).via = via
      /\ count_result'[n] # count_result[n] => NewCount(n).via = via

\* C17: when the store answers every read and every query to the server
\* ends, every promise passed to get_channel_recommendations is answered at
\* last, and none is answered twice; the step that ends a load answers
\* through finish_load or through fail_load, not both.
C17_AnsweredOnce ==
  /\ \A n \in Calls : (n \in Made) ~> (n \in Made /\ Answered(n))
  /\ [](\A n \in Made :
          /\ Len(chats_result[n]) <= (IF calls[n].want_chats THEN 1 ELSE 0)
          /\ Len(count_result[n]) <= (IF calls[n].want_count THEN 1 ELSE 0))
  /\ [][\A c \in CacheKeys : Completes(c) => OneFanOut]_vars

\* Two calls were made and nothing is in flight: the query of the first
\* failed and gave it the error, the second has the chats and the count of a
\* later reply; each promise has one answer.
C17_Witness ==
  /\ Len(calls) = MaxCalls
  /\ \A c \in CacheKeys : InFlight(c) = 0 /\ Waiting(c) = {}
  /\ \A n \in Made : AnswersOf(n) = PromisesOf(n)
  /\ \E n1, n2 \in Made :
       /\ \E o \in CountAnswers(n1) : o.via = "fail" /\ o.error = "CHANNEL_PRIVATE"
       /\ \E o \in ChatsAnswers(n2) : o.via = "finish"
       /\ \E o \in CountAnswers(n2) : o.via = "finish"


\* ---- the answer of the store
\* The record in the store's answer for the channel.
Loaded(channel_id) == parse(EmptyRecommendedDialogs, Head(pmc_gets[channel_id]))

\* The step is the handling of the store's answer for the channel, and the
\* answer is nothing, bytes that do not parse, or a record that does not
\* resolve or is not suitable.
LoadFindsNothing(channel_id) ==
  /\ ~close_flag
  /\ pmc_gets[channel_id] # <<>>
  /\ \E resolved \in BOOLEAN :
       /\ OnLoadFromDatabase(channel_id, resolved)
       /\ \/ Head(pmc_gets[channel_id]).bytes # "log_event"
          \/ ~resolved
          \/ ~are_suitable_recommended_dialogs(Loaded(channel_id))

\* C18: when the store's answer for a channel is a record that parses,
\* resolves and is suitable, the record becomes the cached one and every
\* promise queued for the channel (chats, count of both return_local values)
\* is answered from it; if it is not yet to reload no query is sent, and if
\* it is to reload (next_reload_time_ <= now) one query is sent after the
\* answers, with an empty promise as its only queue entry.  When the answer
\* is nothing, bytes that do not parse or a record that is not suitable, the
\* query is sent, the cache holds no record and no promise is answered from
\* the store (the return_local count promises receive -1).
C18_LoadFromStore ==
  /\ [][\A c \in CacheKeys :
          LoadSucceeds(c) =>
            /\ channel_recommended_dialogs_'[c] = Loaded(c)
            /\ FanOut(c, ChatsQueueLeft)
            /\ pmc_gets'[c] = <<>>
            /\ IF Loaded(c).next_reload_time_ > now
               THEN /\ net_queries'[c] = 0
                    /\ get_channel_recommendations_queries_'[c] = <<>>
               ELSE /\ net_queries[c] = 0 /\ net_queries'[c] = 1
                    /\ get_channel_recommendations_queries_'[c] = <<NoPromise>>]_vars
  /\ [][\A c \in CacheKeys :
          LoadFindsNothing(c) =>
            /\ net_queries[c] = 0 /\ net_queries'[c] = 1
            /\ pmc_gets'[c] = <<>>
            /\ channel_recommended_dialogs_'[c] = NoRecord
            /\ chats_result' = chats_result
            /\ \A n \in Made :
                 count_result'[n] # count_result[n] =>
                   calls[n].return_local /\ IsSentinel(NewCount(n))]_vars

\* The store held the record (2, [a]) to reload at 1 and answered at 1 or
\* later: a call for chats and count has received it, the record is cached,
\* and the query sent then is in flight with an empty promise as the only
\* entry of the queue.
C18_Witness ==
  \E c \in CacheKeys, n \in Made :
    /\ last_fetch[c] = "none"
    /\ channel_recommended_dialogs_[c] =
         [total_count_ |-> 2, dialog_ids_ |-> <<"a">>, next_reload_time_ |-> 1]
    /\ chats_result[n] = <<ChatsValue(2, <<"a">>, "finish", 0)>>
    /\ \E o \in CountAnswers(n) : o.via = "finish" /\ o.count = 2
    /\ net_queries[c] = 1
    /\ get_channel_recommendations_queries_[c] = <<NoPromise>>
    /\ get_channel_recommendation_count_queries_[0][c] = <<>>
    /\ get_channel_recommendation_count_queries_[1][c] = <<>>


\* ---- the cache and the store
\* The store's entry for the channel.
Stored(channel_id) == sqlite_pmc[get_channel_recommendations_database_key(channel_id)]

\* The store's entry parses to the record rec.
StoredIs(channel_id, rec) ==
  /\ ~log_event_parse_is_error(Stored(channel_id))
  /\ parse(EmptyRecommendedDialogs, Stored(channel_id)) = rec

\* C19: with the message database, a channel that has a record in the cache
\* has an entry in the store that parses to the same record (dialogs, total
\* count and reload time); a step that puts a record into the cache leaves
\* it in the store, and a step that removes the cached record leaves the
\* store without an entry for the channel.
C19_StoreMirrorsCache ==
  /\ [](use_message_database =>
          \A c \in CacheKeys :
            channel_recommended_dialogs_[c] # NoRecord =>
              StoredIs(c, channel_recommended_dialogs_[c]))
  /\ [][use_message_database =>
          \A c \in CacheKeys :
            channel_recommended_dialogs_'[c] # channel_recommended_dialogs_[c] =>
              IF channel_recommended_dialogs_'[c] = NoRecord
              THEN Stored(c)' = EmptyValue
              ELSE Stored(c)' = store(channel_recommended_dialogs_'[c])]_vars

\* With the message database, the reply (3, [a, b]) was handled while a was
\* not suitable: the cache holds (2, [b]) and the store's entry, written
\* with its total count, parses to it.
C19_Witness ==
  \E c \in CacheKeys :
    /\ use_message_database
    /\ last_fetch[c] = "ok"
    /\ channel_recommended_dialogs_[c] # NoRecord
    /\ channel_recommended_dialogs_[c].total_count_ = 2
    /\ channel_recommended_dialogs_[c].dialog_ids_ = <<"b">>
    /\ Stored(c).has_total_count
    /\ StoredIs(c, channel_recommended_dialogs_[c])


\* ---- the CHECKs of finish_load and fail_load
\* C20: no CHECK of the manager fails: a channel has a queue of chats
\* promises exactly while a read of the store or a query to the server is in
\* flight for it, so the queue exists whenever a store answer or a reply is
\* handled, and a channel with a queue of count promises (of either
\* return_local value) has a queue of chats promises.
C20_ChecksHold ==
  /\ ~check_failed
  /\ \A c \in CacheKeys :
       /\ get_channel_recommendations_queries_[c] # <<>> <=> InFlight(c) > 0
       /\ \A return_local \in 0 .. 1 :
            get_channel_recommendation_count_queries_[return_local][c] # <<>>
              => get_channel_recommendations_queries_[c] # <<>>

\* The only call made passed a count promise and no chats promise; the
\* store's answer was handled with an empty promise as the only entry of the
\* chats queue, and the count promise received the stored total count.
C20_Witness ==
  /\ Len(calls) = 1
  /\ ~calls[1].want_chats
  /\ \E o \in CountAnswers(1) : o.via = "finish" /\ o.left = 1
  /\ ~check_failed
  /\ get_channel_recommendations_queries_[calls[1].dialog_id] = <<>>

====
